---- MODULE Spec2Model ----
(***************************************************************************)
(* Model of the timeline engine of video-assembler: TimelineService (the   *)
(* BaseService version, src/video-assembler/src/App.tsx lines 490-810).    *)
(* Times are integers, zoom is counted in tenths.  The operations of the    *)
(* service do not depend on the unit of time; the snap resolver, which     *)
(* does, reads a time as a number of ticks (TicksPerSecond).  An optional  *)
(* JavaScript value is a sequence of length at most one: <<>> is           *)
(* undefined, <<x>> is x.  Track ids (Date.now() plus a random suffix) are *)
(* taken to be unique and are numbered in order of creation.  events holds *)
(* what the last call emitted, each event with the state a subscriber      *)
(* reads through getState at the moment it is delivered; error holds the   *)
(* code of the error the last call threw ("" when it returned) and result  *)
(* the value a query returned.                                             *)
(***************************************************************************)
EXTENDS Integers, Sequences, FiniteSets, TLC

\* ---------------------------------------------------------------- bounds
\* tracks ever created (track ids are never reused)
MaxTracks == 2
\* segments held by the timeline at one time
MaxSegs == 2
\* largest position / time argument
MaxPos == 1
\* largest duration of a media reference
MaxDur == 1

\* effects and keyframes ever created, and the declared maximum of a parameter
MaxEffects == 1

MaxKeyframes == 2

MaxVal == 2

\* the resolution of time where its unit matters: ticks in a second
TicksPerSecond == 20

\* processSegments calls ever made, and the segments of one job
MaxCalls == 3

MaxJobSegments == 2

\* initialize calls, and dispose calls, awaiting their implementation at once
MaxPending == 3

\* ---------------------------------------------------------------- inputs
None == <<>>

Some(x) == <<x>>

TrackTypes == {"video", "audio", "subtitle"}

SegIds == {"a", "b"}

\* position arguments: the code accepts any number, negative ones included
Positions == (0 - 1)..MaxPos

\* time arguments of setPlayhead and getSegmentsAtTime
Times == (0 - 1)..(MaxPos + MaxDur + 1)

\* segment.duration of the media reference; LosslessVideoService.VideoSegment
\* has no duration field at all (undefined)
DurationInputs == {None} \cup {Some(d) : d \in 0..MaxDur}

\* track ids handed to the operations: every id ever created and one unknown
TrackIdArgs == 1..(MaxTracks + 1)

\* a media reference without flags
SegmentInputs == [id : SegIds, duration : DurationInputs, locked : {None}, selected : {None}]

\* media references and positions that satisfy validateTimelineSegment
ValidSegmentInputs == [id : SegIds, duration : {Some(d) : d \in 1..MaxDur}, locked : {None}, selected : {None}]

ValidPositions == 0..MaxPos

\* media references as ProjectService.loadProject passes them: saved
\* TimelineSegments, whose locked and selected flags the spread copies
LockedSegmentInputs == [id : SegIds, duration : {Some(1)}, locked : {None, Some(TRUE)}, selected : {None}]

SelectedSegmentInputs == [id : SegIds, duration : {Some(1)}, locked : {None}, selected : {None, Some(TRUE)}]

\* ---------------------------------------------------------------- state
VARIABLES tracks, duration, zoom, playhead, selection, inPoint, outPoint, nextTrackId, events, lastOp, error, result

\* snapEnabled of TimelineState, the counters behind the generated effect and
\* keyframe ids, and the keyframes prop of a KeyframeEditor
VARIABLES snapEnabled, nextEffectId, nextKeyframeId, editorKeyframes

\* an object returned by getState that a caller holds (None before any call):
\* its own copies of the fields of the state, and its tracks array, which is
\* the array of the service (shared) until the service replaces its own;
\* from then on `tracks` is the content of the caller's array, whose track
\* objects remain those of the service
VARIABLES snapshot

\* LosslessVideoService: the queue of submitted jobs (by job number), the
\* isProcessing flag, every job submitted so far (its options, its progress,
\* and who awaits the processQueue call that took it), the promise returned by
\* each processSegments call (call k submitted job k), the jobs in the order
\* in which their processing started, and the events emitted
VARIABLES processingQueue, isProcessing, jobs, promises, started, emitted

lossless == <<processingQueue, isProcessing, jobs, promises, started, emitted>>

\* BaseService: the initialized flag, the initialize and dispose calls awaiting
\* their implementation, lastError (TRUE when set), the last call or
\* completion, and, since the last 'disposed', the runs of initializeImpl
\* that have not failed and the 'initialized' events
VARIABLES initialized, pendingInitialize, pendingDispose, lastError, serviceOp, implRuns, initializedEmits

service == <<initialized, pendingInitialize, pendingDispose, lastError, serviceOp, implRuns, initializedEmits>>

\* the services the timeline does not touch
outside == <<lossless, service>>

\* what the structural operations, the playhead and the selection leave alone
others == <<snapEnabled, nextEffectId, nextKeyframeId, editorKeyframes, snapshot, outside>>

\* all of the timeline, which the other services do not touch
timeline == <<tracks, duration, zoom, playhead, selection, inPoint, outPoint, nextTrackId, events, lastOp, error, result, snapEnabled, nextEffectId, nextKeyframeId, editorKeyframes, snapshot>>

state == <<tracks, duration, zoom, playhead, selection, inPoint, outPoint, snapEnabled>>

vars == <<tracks, duration, zoom, playhead, selection, inPoint, outPoint, nextTrackId, events, lastOp, error, result, snapEnabled, nextEffectId, nextKeyframeId, editorKeyframes, snapshot, processingQueue, isProcessing, jobs, promises, started, emitted, initialized, pendingInitialize, pendingDispose, lastError, serviceOp, implRuns, initializedEmits>>

\* ---------------------------------------------------------------- helpers
Max(a, b) == IF a >= b THEN a ELSE b

Min(a, b) == IF a <= b THEN a ELSE b

\* x || 0 on an optional number
OrZero(x) == IF x = None \/ x = Some(0) THEN 0 ELSE x[1]

\* JavaScript truthiness of an optional boolean
Truthy(x) == x = Some(TRUE)

\* findTrack that falls back to the first track
findTrackOrFirst(ts, trackId) == IF \E i \in 1..Len(ts) : ts[i].id = trackId THEN CHOOSE i \in 1..Len(ts) : ts[i].id = trackId /\ \A j \in 1..(i - 1) : ts[j].id # trackId ELSE Min(1, Len(ts))

\* index of the first track with that id, 0 when find returns undefined
findTrack(ts, trackId) == IF \E i \in 1..Len(ts) : ts[i].id = trackId THEN CHOOSE i \in 1..Len(ts) : ts[i].id = trackId /\ \A j \in 1..(i - 1) : ts[j].id # trackId ELSE 0

\* index of the first segment with that id, 0 when find returns undefined
findSegmentIn(segs, segmentId) == IF \E i \in 1..Len(segs) : segs[i].id = segmentId THEN CHOOSE i \in 1..Len(segs) : segs[i].id = segmentId /\ \A j \in 1..(i - 1) : segs[j].id # segmentId ELSE 0

\* an insertion of s before the elements of the same position
InsertBeforeEqual(sorted, s) == LET k == Cardinality({i \in 1..Len(sorted) : sorted[i].position < s.position}) IN SubSeq(sorted, 1, k) \o <<s>> \o SubSeq(sorted, k + 1, Len(sorted))

\* insertion of s after every element whose position is not larger
InsertByPosition(sorted, s) == LET k == Cardinality({i \in 1..Len(sorted) : sorted[i].position <= s.position}) IN SubSeq(sorted, 1, k) \o <<s>> \o SubSeq(sorted, k + 1, Len(sorted))

RECURSIVE SortFrom(_, _)
SortFrom(acc, rest) == IF rest = <<>> THEN acc ELSE SortFrom(InsertByPosition(acc, Head(rest)), Tail(rest))

\* segments.sort((a, b) => a.position - b.position): a stable sort
SortByPosition(segs) == SortFrom(<<>>, segs)

RECURSIVE FlatSegments(_)
\* tracks.flatMap(track => track.segments)
FlatSegments(ts) == IF ts = <<>> THEN <<>> ELSE Head(ts).segments \o FlatSegments(Tail(ts))

RECURSIVE MaxOf(_, _)
MaxOf(m, segs) == IF segs = <<>> THEN m ELSE MaxOf(Max(m, Head(segs).position + Head(segs).duration), Tail(segs))

\* Math.max(0, ...ends) of updateDuration
NewDuration(ts) == MaxOf(0, FlatSegments(ts))

\* what a subscriber is handed, and what getState shows it at that moment
Event(name, payload, ts, dur) == [name |-> name, payload |-> payload, seenTracks |-> ts, seenDuration |-> dur]

\* an updateDuration that emits whether or not the value changed
updateDurationEventsAlways(ts, dur) == <<Event("durationChanged", NewDuration(ts), ts, NewDuration(ts))>>

\* updateDuration: the events it emits on the tracks ts with the old duration dur
updateDurationEvents(ts, dur) == IF NewDuration(ts) # dur THEN <<Event("durationChanged", NewDuration(ts), ts, NewDuration(ts))>> ELSE <<>>

\* the last call: its name and its arguments (0, "" and <<>> where it has none)
Op(name, trackId, segmentId, position, segmentIds) == [op |-> name, trackId |-> trackId, segmentId |-> segmentId, position |-> position, segmentIds |-> segmentIds]

\* ---------------------------------------------------------------- Init
\* LosslessVideoService as constructed: processingQueue = [], isProcessing = false
InitLossless ==
    /\ processingQueue = <<>>
    /\ isProcessing = FALSE
    /\ jobs = <<>>
    /\ promises = <<>>
    /\ started = <<>>
    /\ emitted = <<>>

\* BaseService as constructed: initialized = false, lastError = null
InitService ==
    /\ initialized = FALSE
    /\ pendingInitialize = 0
    /\ pendingDispose = 0
    /\ lastError = FALSE
    /\ serviceOp = "constructor"
    /\ implRuns = 0
    /\ initializedEmits = 0

Init ==
    /\ tracks = <<>>
    /\ duration = 0
    /\ zoom = 10
    /\ playhead = 0
    /\ selection = <<>>
    /\ inPoint = None
    /\ outPoint = None
    /\ nextTrackId = 1
    /\ events = <<>>
    /\ lastOp = Op("constructor", 0, "", 0, <<>>)
    /\ error = ""
    /\ result = <<>>
    /\ snapEnabled = TRUE
    /\ nextEffectId = 1
    /\ nextKeyframeId = 1
    /\ editorKeyframes = <<>>
    /\ snapshot = None
    /\ InitLossless
    /\ InitService

\* ---------------------------------------------------------------- snapshots
\* the tracks a holder of the snapshot snap sees while the service holds ts:
\* the service's array while it is shared; otherwise the holder's own array,
\* each track object being the service's as long as the service has it
SnapshotTracks(snap, ts) == IF snap.shared THEN ts ELSE [n \in 1..Len(snap.tracks) |-> IF findTrack(ts, snap.tracks[n].id) # 0 THEN ts[findTrack(ts, snap.tracks[n].id)] ELSE snap.tracks[n]]

\* the service replaces its tracks array (this.state.tracks = ..., or a new
\* state): a snapshot keeps the old array with its content ts
Detached(snap, ts) == IF snap = None THEN None ELSE Some([snap[1] EXCEPT !.shared = FALSE, !.tracks = SnapshotTracks(snap[1], ts)])

\* ---------------------------------------------------------------- operations
\* createTrack (App.tsx 552-565)
createTrack(type) ==
    /\ nextTrackId <= MaxTracks
    /\ LET track == [id |-> nextTrackId, type |-> type, segments |-> <<>>]
       IN /\ tracks' = Append(tracks, track)
          /\ events' = <<Event("trackAdded", track, Append(tracks, track), duration)>>
    /\ nextTrackId' = nextTrackId + 1
    /\ lastOp' = Op("createTrack", nextTrackId, "", 0, <<>>)
    /\ error' = ""
    /\ result' = <<>>
    /\ UNCHANGED <<duration, zoom, playhead, selection, inPoint, outPoint>>
    /\ UNCHANGED others

\* tracks.filter(t => t.id !== trackId)
RemoveTrackFrom(ts, trackId) == SelectSeq(ts, LAMBDA t : t.id # trackId)

\* removeTrack (App.tsx 575-582)
removeTrack(trackId) ==
    /\ LET i == findTrack(tracks, trackId)
           ts == RemoveTrackFrom(tracks, trackId)
       IN IF i # 0
          THEN /\ tracks' = ts
               /\ events' = <<Event("trackRemoved", tracks[i], ts, duration)>> \o updateDurationEvents(ts, duration)
               /\ duration' = NewDuration(ts)
               /\ snapshot' = Detached(snapshot, tracks)
          ELSE /\ events' = <<>>
               /\ UNCHANGED <<tracks, duration, snapshot>>
    /\ lastOp' = Op("removeTrack", trackId, "", 0, <<>>)
    /\ error' = ""
    /\ result' = <<>>
    /\ UNCHANGED <<zoom, playhead, selection, inPoint, outPoint, nextTrackId>>
    /\ UNCHANGED <<snapEnabled, nextEffectId, nextKeyframeId, editorKeyframes, outside>>

\* the TimelineSegment addSegment builds: the spread of the media reference,
\* then trackId, position and duration
TimelineSegmentOf(trackId, segment, position) == [id |-> segment.id, trackId |-> trackId, position |-> position, duration |-> OrZero(segment.duration), locked |-> segment.locked, selected |-> segment.selected, effects |-> <<>>]

\* the push without the sort
PushNoSort(segs, s) == Append(segs, s)

\* track.segments.push(s); track.segments.sort(...)
PushAndSort(segs, s) == SortByPosition(Append(segs, s))

\* addSegment (App.tsx 584-609)
addSegment(trackId, segment, position) ==
    /\ LET i == findTrack(tracks, trackId)
           timelineSegment == TimelineSegmentOf(trackId, segment, position)
           ts == [tracks EXCEPT ![i].segments = PushAndSort(@, timelineSegment)]
       IN IF i = 0
          THEN /\ error' = "TRACK_NOT_FOUND"
               /\ events' = <<>>
               /\ UNCHANGED <<tracks, duration>>
          ELSE /\ Len(FlatSegments(tracks)) < MaxSegs
               /\ error' = ""
               /\ tracks' = ts
               /\ events' = <<Event("segmentAdded", timelineSegment, ts, duration)>> \o updateDurationEvents(ts, duration)
               /\ duration' = NewDuration(ts)
    /\ lastOp' = Op("addSegment", trackId, segment.id, position, <<>>)
    /\ result' = <<>>
    /\ UNCHANGED <<zoom, playhead, selection, inPoint, outPoint, nextTrackId>>
    /\ UNCHANGED others

\* track.segments.filter(s => s.id !== segmentId)
RemoveSegmentFrom(segs, segmentId) == SelectSeq(segs, LAMBDA s : s.id # segmentId)

\* removeSegment (App.tsx 611-621)
removeSegment(trackId, segmentId) ==
    /\ LET i == findTrack(tracks, trackId)
           k == IF i = 0 THEN 0 ELSE findSegmentIn(tracks[i].segments, segmentId)
           ts == [tracks EXCEPT ![i].segments = RemoveSegmentFrom(@, segmentId)]
       IN IF i # 0 /\ k # 0
          THEN /\ tracks' = ts
               /\ events' = <<Event("segmentRemoved", tracks[i].segments[k], ts, duration)>> \o updateDurationEvents(ts, duration)
               /\ duration' = NewDuration(ts)
          ELSE /\ events' = <<>>
               /\ UNCHANGED <<tracks, duration>>
    /\ lastOp' = Op("removeSegment", trackId, segmentId, 0, <<>>)
    /\ error' = ""
    /\ result' = <<>>
    /\ UNCHANGED <<zoom, playhead, selection, inPoint, outPoint, nextTrackId>>
    /\ UNCHANGED others

\* index of the first track holding a segment with that id, 0 when there is none
findSegmentTrack(ts, segmentId) == IF \E i \in 1..Len(ts) : findSegmentIn(ts[i].segments, segmentId) # 0 THEN CHOOSE i \in 1..Len(ts) : findSegmentIn(ts[i].segments, segmentId) # 0 /\ \A j \in 1..(i - 1) : findSegmentIn(ts[j].segments, segmentId) = 0 ELSE 0

\* segment.position = newPosition
MovedPosition(segment, newPosition) == newPosition

\* segment.position = newPosition; track.segments.sort(...)
MoveAndSort(segs, k, newPosition) == SortByPosition([segs EXCEPT ![k].position = MovedPosition(segs[k], newPosition)])

\* moveSegment (App.tsx 623-634)
moveSegment(segmentId, newPosition) ==
    /\ LET i == findSegmentTrack(tracks, segmentId)
           k == IF i = 0 THEN 0 ELSE findSegmentIn(tracks[i].segments, segmentId)
           moved == [tracks[i].segments[k] EXCEPT !.position = MovedPosition(@, newPosition)]
           ts == [tracks EXCEPT ![i].segments = MoveAndSort(@, k, newPosition)]
       IN IF i # 0
          THEN /\ tracks' = ts
               /\ events' = <<Event("segmentMoved", moved, ts, duration)>> \o updateDurationEvents(ts, duration)
               /\ duration' = NewDuration(ts)
          ELSE /\ events' = <<>>
               /\ UNCHANGED <<tracks, duration>>
    /\ lastOp' = Op("moveSegment", 0, segmentId, newPosition, <<>>)
    /\ error' = ""
    /\ result' = <<>>
    /\ UNCHANGED <<zoom, playhead, selection, inPoint, outPoint, nextTrackId>>
    /\ UNCHANGED others

\* Math.max(0, Math.min(position, duration))
ClampPlayhead(position, dur) == Max(0, Min(position, dur))

\* setPlayhead (App.tsx 721-724)
setPlayhead(position) ==
    /\ playhead' = ClampPlayhead(position, duration)
    /\ events' = <<Event("playheadMoved", ClampPlayhead(position, duration), tracks, duration)>>
    /\ lastOp' = Op("setPlayhead", 0, "", position, <<>>)
    /\ error' = ""
    /\ result' = <<>>
    /\ UNCHANGED <<tracks, duration, zoom, selection, inPoint, outPoint, nextTrackId>>
    /\ UNCHANGED others

\* setSelection (App.tsx 737-740)
setSelection(segmentIds) ==
    /\ selection' = segmentIds
    /\ events' = <<Event("selectionChanged", segmentIds, tracks, duration)>>
    /\ lastOp' = Op("setSelection", 0, "", 0, segmentIds)
    /\ error' = ""
    /\ result' = <<>>
    /\ UNCHANGED <<tracks, duration, zoom, playhead, inPoint, outPoint, nextTrackId>>
    /\ UNCHANGED others

\* the filter predicate with a closed interval
ActiveAtClosed(segment, time) == time >= segment.position /\ time <= segment.position + segment.duration

\* the filter predicate of getSegmentsAtTime
ActiveAt(segment, time) == time >= segment.position /\ time < segment.position + segment.duration

\* tracks.flatMap(track => track.segments.filter(...)) (App.tsx 766-772)
SegmentsAtTime(ts, time) == SelectSeq(FlatSegments(ts), LAMBDA s : ActiveAt(s, time))

\* a call of getSegmentsAtTime: a query, it changes no timeline state
getSegmentsAtTime(time) ==
    /\ result' = SegmentsAtTime(tracks, time)
    /\ events' = <<>>
    /\ lastOp' = Op("getSegmentsAtTime", 0, "", time, <<>>)
    /\ error' = ""
    /\ UNCHANGED <<tracks, duration, zoom, playhead, selection, inPoint, outPoint, nextTrackId>>
    /\ UNCHANGED others

\* ---------------------------------------------------------------- view settings
\* the limits of setZoom, 0.1 and 10, in tenths
MinZoom == 1

MaxZoom == 100

\* zoom arguments, in tenths: every value of the range, one below 0 and one
\* above the maximum
ZoomArgs == (0 - 1)..(MaxZoom + 1)

\* the clamp without its lower limit
ClampZoomAbove(z) == Min(z, MaxZoom)

\* Math.max(0.1, Math.min(zoom, 10))
ClampZoom(z) == Max(MinZoom, Min(z, MaxZoom))

\* setZoom (App.tsx 726-729)
setZoom(z) ==
    /\ zoom' = ClampZoom(z)
    /\ events' = <<Event("zoomChanged", ClampZoom(z), tracks, duration)>>
    /\ lastOp' = Op("setZoom", 0, "", z, <<>>)
    /\ error' = ""
    /\ result' = <<>>
    /\ UNCHANGED <<tracks, duration, playhead, selection, inPoint, outPoint, nextTrackId>>
    /\ UNCHANGED others

\* the optional arguments of setInOutPoints: undefined or any number
PointArgs == {None} \cup {Some(t) : t \in Times}

\* the last call of setInOutPoints and its arguments
PointsOp(inArg, outArg) == [op |-> "setInOutPoints", trackId |-> 0, segmentId |-> "", position |-> 0, segmentIds |-> <<>>, inPoint |-> inArg, outPoint |-> outArg]

\* setInOutPoints (App.tsx 731-735): both points are stored as they are given
setInOutPoints(inArg, outArg) ==
    /\ inPoint' = inArg
    /\ outPoint' = outArg
    /\ events' = <<Event("inOutPointsChanged", [inPoint |-> inArg, outPoint |-> outArg], tracks, duration)>>
    /\ lastOp' = PointsOp(inArg, outArg)
    /\ error' = ""
    /\ result' = <<>>
    /\ UNCHANGED <<tracks, duration, zoom, playhead, selection, nextTrackId>>
    /\ UNCHANGED others

\* setSnapEnabled (App.tsx 742-748)
setSnapEnabled(enabled) ==
    /\ snapEnabled' = enabled
    /\ events' = <<Event("snapSettingsChanged", [enabled |-> enabled], tracks, duration)>>
    /\ lastOp' = Op("setSnapEnabled", 0, "", 0, <<>>)
    /\ error' = ""
    /\ result' = <<>>
    /\ UNCHANGED <<tracks, duration, zoom, playhead, selection, inPoint, outPoint, nextTrackId>>
    /\ UNCHANGED <<nextEffectId, nextKeyframeId, editorKeyframes, snapshot, outside>>

\* ---------------------------------------------------------------- snapping
\* snapTolerance of the timeline state, in pixels; the service has no setter
SnapTolerance == 5

PIXELS_PER_SECOND == 50

\* candidate times of a drag, in ticks
SnapTimes == (0 - 2)..(MaxPos + MaxDur + 2)

Abs(x) == IF x < 0 THEN 0 - x ELSE x

RECURSIVE SegmentSnapPoints(_)
\* for every segment in turn its position, then its end
SegmentSnapPoints(segs) == IF segs = <<>> THEN <<>> ELSE <<Head(segs).position, Head(segs).position + Head(segs).duration>> \o SegmentSnapPoints(Tail(segs))

\* if (timelineState.inPoint) snapPoints.push(...): a point of 0 is falsy
PointIfTruthy(p) == IF p # None /\ p[1] # 0 THEN p ELSE <<>>

\* the snapPoints array of findNearestSnapPoint, in the order it is filled
SnapPoints(ts, ph, inP, outP) == SegmentSnapPoints(FlatSegments(ts)) \o <<ph>> \o PointIfTruthy(inP) \o PointIfTruthy(outP)

\* a distance of d ticks, and the tolerance snapTolerance / (PIXELS_PER_SECOND
\* * zoom) seconds at zoom z (in tenths), both on the scale on which they are
\* integers: multiplied by PIXELS_PER_SECOND * z * TicksPerSecond
ScaledDistance(d, z) == d * PIXELS_PER_SECOND * z

ScaledTolerance == SnapTolerance * 10 * TicksPerSecond

\* the comparison that also accepts an equal distance
CloserOrEqual(distance, minDistance) == distance <= minDistance

\* distance < minDistance
Closer(distance, minDistance) == distance < minDistance

RECURSIVE NearestFrom(_, _, _, _, _)
\* snapPoints.forEach: the nearest point and the minimal distance so far
NearestFrom(nearestPoint, minDistance, points, time, z) ==
    IF points = <<>> THEN nearestPoint
    ELSE IF Closer(ScaledDistance(Abs(Head(points) - time), z), minDistance)
         THEN NearestFrom(Head(points), ScaledDistance(Abs(Head(points) - time), z), Tail(points), time, z)
         ELSE NearestFrom(nearestPoint, minDistance, Tail(points), time, z)

\* findNearestSnapPoint (Timeline.tsx 78-110) on a timeline state
NearestSnapPoint(enabled, ts, ph, inP, outP, z, time) == IF ~enabled THEN time ELSE NearestFrom(time, ScaledTolerance, SnapPoints(ts, ph, inP, outP), time, z)

\* a call of findNearestSnapPoint, handed the current timeline state: a query
findNearestSnapPoint(time) ==
    /\ result' = <<NearestSnapPoint(snapEnabled, tracks, playhead, inPoint, outPoint, zoom, time)>>
    /\ events' = <<>>
    /\ lastOp' = Op("findNearestSnapPoint", 0, "", time, <<>>)
    /\ error' = ""
    /\ UNCHANGED <<tracks, duration, zoom, playhead, selection, inPoint, outPoint, nextTrackId>>
    /\ UNCHANGED others

\* ---------------------------------------------------------------- effects
\* ids handed to the effect operations: every id ever generated and one unknown
EffectIdArgs == 1..(MaxEffects + 1)

KeyframeIdArgs == 1..(MaxKeyframes + 1)

\* parameter ids: "p" is the parameter of every effect, "q" is unknown
ParamIdArgs == {"p", "q"}

\* values handed to updateEffectParameter and addEffectKeyframe
ValueArgs == (0 - 1)..(MaxVal + 1)

\* a numeric parameter that declares min and max, and one that declares neither
BoundedParameter == [id |-> "p", value |-> 1, min |-> Some(0), max |-> Some(MaxVal), keyframes |-> None]

FreeParameter == [id |-> "p", value |-> 1, min |-> None, max |-> None, keyframes |-> None]

\* the effect argument of addEffect (Omit<TimelineEffect, 'id'>)
EffectInputs == {[parameters |-> <<BoundedParameter>>], [parameters |-> <<FreeParameter>>]}

\* the last call of an effect operation and its arguments
EffectOp(name, segmentId, effectId, parameterId, keyframeId, time, value) == [op |-> name, trackId |-> 0, segmentId |-> segmentId, position |-> 0, segmentIds |-> <<>>, effectId |-> effectId, parameterId |-> parameterId, keyframeId |-> keyframeId, time |-> time, value |-> value]

\* the lookup that falls back on the first effect
findEffectOrFirst(effs, effectId) == IF \E i \in 1..Len(effs) : effs[i].id = effectId THEN CHOOSE i \in 1..Len(effs) : effs[i].id = effectId /\ \A j \in 1..(i - 1) : effs[j].id # effectId ELSE Min(1, Len(effs))

\* segment.effects.find(e => e.id === effectId): its index, 0 for undefined
findEffectIn(effs, effectId) == IF \E i \in 1..Len(effs) : effs[i].id = effectId THEN CHOOSE i \in 1..Len(effs) : effs[i].id = effectId /\ \A j \in 1..(i - 1) : effs[j].id # effectId ELSE 0

\* effect.parameters.find(p => p.id === parameterId): its index, 0 for undefined
findParameterIn(params, parameterId) == IF \E i \in 1..Len(params) : params[i].id = parameterId THEN CHOOSE i \in 1..Len(params) : params[i].id = parameterId /\ \A j \in 1..(i - 1) : params[j].id # parameterId ELSE 0

\* the loops over tracks and segments of the parameter and keyframe operations:
\* <<track, segment, effect>> of the first segment holding the effect, zeros
\* when the loops end without finding it
findEffect(ts, effectId) == LET ps == {pl \in {<<i, k>> : i \in 1..Len(ts), k \in 1..(MaxSegs + 1)} : pl[2] <= Len(ts[pl[1]].segments) /\ findEffectIn(ts[pl[1]].segments[pl[2]].effects, effectId) # 0} IN IF ps = {} THEN <<0, 0, 0>> ELSE LET pl == CHOOSE q \in ps : \A r \in ps : q[1] < r[1] \/ (q[1] = r[1] /\ q[2] <= r[2]) IN <<pl[1], pl[2], findEffectIn(ts[pl[1]].segments[pl[2]].effects, effectId)>>

\* addEffect (App.tsx 636-652)
addEffect(segmentId, effect) ==
    /\ LET i == findSegmentTrack(tracks, segmentId)
           k == IF i = 0 THEN 0 ELSE findSegmentIn(tracks[i].segments, segmentId)
           timelineEffect == [id |-> nextEffectId, parameters |-> effect.parameters]
           ts == [tracks EXCEPT ![i].segments[k].effects = Append(@, timelineEffect)]
       IN IF i = 0
          THEN /\ error' = "SEGMENT_NOT_FOUND"
               /\ events' = <<>>
               /\ UNCHANGED <<tracks, nextEffectId>>
          ELSE /\ nextEffectId <= MaxEffects
               /\ error' = ""
               /\ tracks' = ts
               /\ nextEffectId' = nextEffectId + 1
               /\ events' = <<Event("effectAdded", [segmentId |-> segmentId, effect |-> timelineEffect], ts, duration)>>
    /\ lastOp' = EffectOp("addEffect", segmentId, 0, "", 0, 0, 0)
    /\ result' = <<>>
    /\ UNCHANGED <<duration, zoom, playhead, selection, inPoint, outPoint, nextTrackId>>
    /\ UNCHANGED <<snapEnabled, nextKeyframeId, editorKeyframes, snapshot, outside>>

\* segment.effects.filter(e => e.id !== effectId)
RemoveEffectFrom(effs, effectId) == SelectSeq(effs, LAMBDA e : e.id # effectId)

\* removeEffect (App.tsx 654-663)
removeEffect(segmentId, effectId) ==
    /\ LET i == findSegmentTrack(tracks, segmentId)
           k == IF i = 0 THEN 0 ELSE findSegmentIn(tracks[i].segments, segmentId)
           e == IF i = 0 THEN 0 ELSE findEffectIn(tracks[i].segments[k].effects, effectId)
           ts == [tracks EXCEPT ![i].segments[k].effects = RemoveEffectFrom(@, effectId)]
       IN IF e # 0
          THEN /\ tracks' = ts
               /\ events' = <<Event("effectRemoved", [segmentId |-> segmentId, effect |-> tracks[i].segments[k].effects[e]], ts, duration)>>
          ELSE /\ events' = <<>>
               /\ UNCHANGED tracks
    /\ lastOp' = EffectOp("removeEffect", segmentId, effectId, "", 0, 0, 0)
    /\ error' = ""
    /\ result' = <<>>
    /\ UNCHANGED <<duration, zoom, playhead, selection, inPoint, outPoint, nextTrackId>>
    /\ UNCHANGED others

\* parameter.value = value: the value is stored as it is given
StoredValue(parameter, value) == value

\* updateEffectParameter (App.tsx 665-679): nothing happens, and nothing is
\* thrown, when the effect or the parameter is not found
updateEffectParameter(effectId, parameterId, value) ==
    /\ LET pl == findEffect(tracks, effectId)
           i == pl[1]
           k == pl[2]
           e == pl[3]
           p == IF e = 0 THEN 0 ELSE findParameterIn(tracks[i].segments[k].effects[e].parameters, parameterId)
           ts == [tracks EXCEPT ![i].segments[k].effects[e].parameters[p].value = StoredValue(@, value)]
       IN IF p # 0
          THEN /\ tracks' = ts
               /\ events' = <<Event("effectUpdated", [segmentId |-> ts[i].segments[k].id, effect |-> ts[i].segments[k].effects[e]], ts, duration)>>
          ELSE /\ events' = <<>>
               /\ UNCHANGED tracks
    /\ lastOp' = EffectOp("updateEffectParameter", "", effectId, parameterId, 0, 0, value)
    /\ error' = ""
    /\ result' = <<>>
    /\ UNCHANGED <<duration, zoom, playhead, selection, inPoint, outPoint, nextTrackId>>
    /\ UNCHANGED others

\* parameter.keyframes || []
OrEmpty(keyframes) == IF keyframes = None THEN <<>> ELSE keyframes[1]

\* insertion of k after every keyframe whose time is not larger
InsertByTime(sorted, k) == LET n == Cardinality({i \in 1..Len(sorted) : sorted[i].time <= k.time}) IN SubSeq(sorted, 1, n) \o <<k>> \o SubSeq(sorted, n + 1, Len(sorted))

RECURSIVE SortTimesFrom(_, _)
SortTimesFrom(acc, rest) == IF rest = <<>> THEN acc ELSE SortTimesFrom(InsertByTime(acc, Head(rest)), Tail(rest))

\* keyframes.sort((a, b) => a.time - b.time): a stable sort
SortByTime(keyframes) == SortTimesFrom(<<>>, keyframes)

\* addEffectKeyframe (App.tsx 681-703): the new keyframe is linear
addEffectKeyframe(effectId, parameterId, time, value) ==
    /\ LET pl == findEffect(tracks, effectId)
           i == pl[1]
           k == pl[2]
           e == pl[3]
           p == IF e = 0 THEN 0 ELSE findParameterIn(tracks[i].segments[k].effects[e].parameters, parameterId)
           keyframe == [id |-> nextKeyframeId, time |-> time, value |-> value, easing |-> "linear"]
           ts == [tracks EXCEPT ![i].segments[k].effects[e].parameters[p].keyframes = Some(SortByTime(Append(OrEmpty(@), keyframe)))]
       IN IF p # 0
          THEN /\ nextKeyframeId <= MaxKeyframes
               /\ tracks' = ts
               /\ nextKeyframeId' = nextKeyframeId + 1
               /\ events' = <<Event("effectUpdated", [segmentId |-> ts[i].segments[k].id, effect |-> ts[i].segments[k].effects[e]], ts, duration)>>
          ELSE /\ events' = <<>>
               /\ UNCHANGED <<tracks, nextKeyframeId>>
    /\ lastOp' = EffectOp("addEffectKeyframe", "", effectId, parameterId, 0, time, value)
    /\ error' = ""
    /\ result' = <<>>
    /\ UNCHANGED <<duration, zoom, playhead, selection, inPoint, outPoint, nextTrackId>>
    /\ UNCHANGED <<snapEnabled, nextEffectId, editorKeyframes, snapshot, outside>>

\* parameter.keyframes.filter(k => k.id !== keyframeId)
RemoveKeyframeFrom(keyframes, keyframeId) == SelectSeq(keyframes, LAMBDA k : k.id # keyframeId)

\* removeEffectKeyframe (App.tsx 705-719): an empty list of keyframes is
\* truthy, so the filter runs and the event is emitted whenever the parameter
\* has a list
removeEffectKeyframe(effectId, parameterId, keyframeId) ==
    /\ LET pl == findEffect(tracks, effectId)
           i == pl[1]
           k == pl[2]
           e == pl[3]
           p == IF e = 0 THEN 0 ELSE findParameterIn(tracks[i].segments[k].effects[e].parameters, parameterId)
           ts == [tracks EXCEPT ![i].segments[k].effects[e].parameters[p].keyframes = Some(RemoveKeyframeFrom(@[1], keyframeId))]
       IN IF p # 0 /\ tracks[i].segments[k].effects[e].parameters[p].keyframes # None
          THEN /\ tracks' = ts
               /\ events' = <<Event("effectUpdated", [segmentId |-> ts[i].segments[k].id, effect |-> ts[i].segments[k].effects[e]], ts, duration)>>
          ELSE /\ events' = <<>>
               /\ UNCHANGED tracks
    /\ lastOp' = EffectOp("removeEffectKeyframe", "", effectId, parameterId, keyframeId, 0, 0)
    /\ error' = ""
    /\ result' = <<>>
    /\ UNCHANGED <<duration, zoom, playhead, selection, inPoint, outPoint, nextTrackId>>
    /\ UNCHANGED others

\* ---------------------------------------------------------------- keyframe evaluation
\* Keyframe.easing; "bezier" takes the default branch, as would undefined
Easings == {"linear", "easeIn", "easeOut", "easeInOut", "bezier"}

\* keyframes handed to a KeyframeEditor, in any order
KeyframeInputs == [time : 0..(MaxPos + MaxDur), value : 0..MaxVal, easing : Easings]

RECURSIVE SeqsUpTo(_, _)
\* the sequences over S of length at most n
SeqsUpTo(S, n) == IF n = 0 THEN {<<>>} ELSE LET shorter == SeqsUpTo(S, n - 1) IN shorter \cup {Append(q, x) : q \in shorter, x \in S}

\* a number of the evaluation: the exact fraction num / den, den > 0
Fraction(num, den) == [num |-> num, den |-> den]

\* an easeOut without the complement: Math.pow(1 - t, 2)
EaseFactorNoComplement(easing, n, d) ==
    IF easing = "easeIn" THEN Fraction(n * n, d * d)
    ELSE IF easing = "easeOut" THEN Fraction((d - n) * (d - n), d * d)
    ELSE IF easing = "easeInOut" THEN (IF 2 * n < d THEN Fraction(2 * n * n, d * d) ELSE Fraction(2 * d * d - (2 * d - 2 * n) * (2 * d - 2 * n), 2 * d * d))
    ELSE Fraction(n, d)

\* the factor of (v2 - v1) in the switch on k1.easing, for t = n / d:
\* t^2, 1 - (1 - t)^2, (t < 0.5 ? 2 t^2 : 1 - (-2 t + 2)^2 / 2), t
EaseFactor(easing, n, d) ==
    IF easing = "easeIn" THEN Fraction(n * n, d * d)
    ELSE IF easing = "easeOut" THEN Fraction(d * d - (d - n) * (d - n), d * d)
    ELSE IF easing = "easeInOut" THEN (IF 2 * n < d THEN Fraction(2 * n * n, d * d) ELSE Fraction(2 * d * d - (2 * d - 2 * n) * (2 * d - 2 * n), 2 * d * d))
    ELSE Fraction(n, d)

\* sortedKeyframes.findIndex(k => k.time > time), counted from 1; 0 for -1
findNextIndex(sorted, time) == IF \E i \in 1..Len(sorted) : sorted[i].time > time THEN CHOOSE i \in 1..Len(sorted) : sorted[i].time > time /\ \A j \in 1..(i - 1) : sorted[j].time <= time ELSE 0

\* interpolateValue (KeyframeEditor.tsx 111-137): None is undefined, the
\* value of sortedKeyframes[-1]?.value on an empty list
interpolateValue(keyframes, time) ==
    LET sortedKeyframes == SortByTime(keyframes)
        nextIndex == findNextIndex(sortedKeyframes, time)
    IN IF nextIndex = 0 THEN (IF sortedKeyframes = <<>> THEN None ELSE Some(Fraction(sortedKeyframes[Len(sortedKeyframes)].value, 1)))
       ELSE IF nextIndex = 1 THEN Some(Fraction(sortedKeyframes[1].value, 1))
       ELSE LET k1 == sortedKeyframes[nextIndex - 1]
                k2 == sortedKeyframes[nextIndex]
                f == EaseFactor(k1.easing, time - k1.time, k2.time - k1.time)
            IN Some(Fraction(k1.value * f.den + (k2.value - k1.value) * f.num, f.den))

\* a KeyframeEditor mounted on a list of keyframes
InitEditor ==
    /\ tracks = <<>>
    /\ duration = 0
    /\ zoom = 10
    /\ playhead = 0
    /\ selection = <<>>
    /\ inPoint = None
    /\ outPoint = None
    /\ nextTrackId = 1
    /\ events = <<>>
    /\ lastOp = Op("constructor", 0, "", 0, <<>>)
    /\ error = ""
    /\ result = <<>>
    /\ snapEnabled = TRUE
    /\ nextEffectId = 1
    /\ nextKeyframeId = 1
    /\ editorKeyframes \in SeqsUpTo(KeyframeInputs, MaxKeyframes)
    /\ snapshot = None
    /\ InitLossless
    /\ InitService

\* a call of interpolateValue on the editor's keyframes
interpolate(time) ==
    /\ result' = interpolateValue(editorKeyframes, time)
    /\ events' = <<>>
    /\ lastOp' = Op("interpolateValue", 0, "", time, <<>>)
    /\ error' = ""
    /\ UNCHANGED <<tracks, duration, zoom, playhead, selection, inPoint, outPoint, nextTrackId>>
    /\ UNCHANGED others

\* the value EffectControls shows for a numeric parameter at a time: the
\* curve of the KeyframeEditor, mounted whenever parameter.keyframes is truthy
\* (an empty list is), and the static value of the range input otherwise
parameterValueAt(parameter, time) == IF parameter.keyframes # None THEN interpolateValue(parameter.keyframes[1], time) ELSE Some(Fraction(parameter.value, 1))

\* the evaluation of a parameter of the timeline at a time: a query
evaluate(effectId, parameterId, time) ==
    /\ LET pl == findEffect(tracks, effectId)
           p == IF pl[3] = 0 THEN 0 ELSE findParameterIn(tracks[pl[1]].segments[pl[2]].effects[pl[3]].parameters, parameterId)
       IN /\ p # 0
          /\ result' = parameterValueAt(tracks[pl[1]].segments[pl[2]].effects[pl[3]].parameters[p], time)
    /\ events' = <<>>
    /\ lastOp' = EffectOp("evaluate", "", effectId, parameterId, 0, time, 0)
    /\ error' = ""
    /\ UNCHANGED <<tracks, duration, zoom, playhead, selection, inPoint, outPoint, nextTrackId>>
    /\ UNCHANGED others

\* ---------------------------------------------------------------- projects
\* a saved TimelineSegment handed to addSegment as the media reference
SavedReference(segment) == [id |-> segment.id, duration |-> Some(segment.duration), locked |-> segment.locked, selected |-> segment.selected]

RECURSIVE LoadSegments(_, _, _)
\* track.segments.forEach(segment => addSegment(newTrack.id, segment,
\* segment.position)) on the timeline acc, for the track at index i
LoadSegments(acc, i, segs) ==
    IF segs = <<>> THEN acc
    ELSE LET timelineSegment == TimelineSegmentOf(acc.tracks[i].id, SavedReference(Head(segs)), Head(segs).position)
             ts == [acc.tracks EXCEPT ![i].segments = PushAndSort(@, timelineSegment)]
         IN LoadSegments([tracks |-> ts, duration |-> NewDuration(ts), events |-> acc.events \o <<Event("segmentAdded", timelineSegment, ts, acc.duration)>> \o updateDurationEvents(ts, acc.duration)], i, Tail(segs))

RECURSIVE LoadTracks(_, _, _)
\* state.tracks.forEach(track => { createTrack(track.type); ... }), the new
\* tracks taking the ids id, id + 1, ...
LoadTracks(acc, saved, id) ==
    IF saved = <<>> THEN acc
    ELSE LET track == [id |-> id, type |-> Head(saved).type, segments |-> <<>>]
             ts == Append(acc.tracks, track)
             created == [tracks |-> ts, duration |-> acc.duration, events |-> Append(acc.events, Event("trackAdded", track, ts, acc.duration))]
         IN LoadTracks(LoadSegments(created, Len(ts), Head(saved).segments), Tail(saved), id + 1)

\* ProjectService.saveProject followed by loadProject (ProjectService.ts
\* 107-164) of the file just written: the file holds getState(); the
\* TimelineService, initialized by ProjectService.initialize, is disposed
\* (disposeImpl resets the state), initialized again and rebuilt through
\* createTrack and addSegment.  result keeps the timeline of the file.
loadProject ==
    /\ nextTrackId + Len(tracks) <= 2 * MaxTracks + 1
    /\ LET loaded == LoadTracks([tracks |-> <<>>, duration |-> 0, events |-> <<Event("disposed", 0, <<>>, 0), Event("initialized", 0, <<>>, 0)>>], tracks, nextTrackId)
       IN /\ tracks' = loaded.tracks
          /\ duration' = loaded.duration
          /\ events' = loaded.events
    /\ zoom' = 10
    /\ playhead' = 0
    /\ selection' = <<>>
    /\ inPoint' = None
    /\ outPoint' = None
    /\ snapEnabled' = TRUE
    /\ nextTrackId' = nextTrackId + Len(tracks)
    /\ result' = <<[tracks |-> tracks, duration |-> duration]>>
    /\ lastOp' = Op("loadProject", 0, "", 0, <<>>)
    /\ error' = ""
    /\ snapshot' = Detached(snapshot, tracks)
    /\ UNCHANGED <<nextEffectId, nextKeyframeId, editorKeyframes, outside>>

\* ---------------------------------------------------------------- getState
\* what the holder of the snapshot snap reads from it
SnapshotView(snap, ts) == [snap EXCEPT !.tracks = SnapshotTracks(snap, ts), !.shared = FALSE]

\* getState returns { ...this.state }: a new object whose fields hold the
\* values of the state's fields, the tracks field being the same array
getState ==
    /\ snapshot' = Some([shared |-> TRUE, tracks |-> <<>>, duration |-> duration, zoom |-> zoom, playhead |-> playhead, selection |-> selection, inPoint |-> inPoint, outPoint |-> outPoint, snapEnabled |-> snapEnabled])
    /\ events' = <<>>
    /\ lastOp' = Op("getState", 0, "", 0, <<>>)
    /\ error' = ""
    /\ UNCHANGED <<tracks, duration, zoom, playhead, selection, inPoint, outPoint, nextTrackId, result>>
    /\ UNCHANGED <<snapEnabled, nextEffectId, nextKeyframeId, editorKeyframes, outside>>

\* the holder assigns a field of the returned object: snapshot.playhead = p
holderSetsPlayhead(position) ==
    /\ snapshot # None
    /\ snapshot' = Some([snapshot[1] EXCEPT !.playhead = position])
    /\ events' = <<>>
    /\ lastOp' = Op("holderSetsPlayhead", 0, "", position, <<>>)
    /\ UNCHANGED <<tracks, duration, zoom, playhead, selection, inPoint, outPoint, nextTrackId, result, error>>
    /\ UNCHANGED <<snapEnabled, nextEffectId, nextKeyframeId, editorKeyframes, outside>>

\* the holder changes the track list of the returned object:
\* snapshot.tracks.pop(), on the array the object holds
holderPopsTrack ==
    /\ snapshot # None
    /\ Len(SnapshotTracks(snapshot[1], tracks)) > 0
    /\ IF snapshot[1].shared
          THEN /\ tracks' = SubSeq(tracks, 1, Len(tracks) - 1)
               /\ UNCHANGED snapshot
          ELSE /\ snapshot' = Some([snapshot[1] EXCEPT !.tracks = SubSeq(snapshot[1].tracks, 1, Len(snapshot[1].tracks) - 1)])
               /\ UNCHANGED tracks
    /\ events' = <<>>
    /\ lastOp' = Op("holderPopsTrack", 0, "", 0, <<>>)
    /\ UNCHANGED <<duration, zoom, playhead, selection, inPoint, outPoint, nextTrackId, result, error>>
    /\ UNCHANGED <<snapEnabled, nextEffectId, nextKeyframeId, editorKeyframes, outside>>

\* the holder changes a segment of the returned object:
\* snapshot.tracks[n].segments[m].position = p, on the segment object the
\* track object holds
holderMovesSegment(n, m, position) ==
    /\ snapshot # None
    /\ n \in 1..Len(SnapshotTracks(snapshot[1], tracks))
    /\ m \in 1..Len(SnapshotTracks(snapshot[1], tracks)[n].segments)
    /\ LET i == IF snapshot[1].shared THEN n ELSE findTrack(tracks, snapshot[1].tracks[n].id)
       IN IF i # 0
             THEN /\ tracks' = [tracks EXCEPT ![i].segments[m].position = position]
                  /\ UNCHANGED snapshot
             ELSE /\ snapshot' = Some([snapshot[1] EXCEPT !.tracks[n].segments[m].position = position])
                  /\ UNCHANGED tracks
    /\ events' = <<>>
    /\ lastOp' = Op("holderMovesSegment", n, "", position, <<>>)
    /\ UNCHANGED <<duration, zoom, playhead, selection, inPoint, outPoint, nextTrackId, result, error>>
    /\ UNCHANGED <<snapEnabled, nextEffectId, nextKeyframeId, editorKeyframes, outside>>

\* ---------------------------------------------------------------- lossless processing
\* the jobs a caller submits: the number of segments, options.preserveMetadata
\* and whether options.selectedStreams is given
JobInputs == [segments : 1..MaxJobSegments, preserveMetadata : BOOLEAN, selectedStreams : BOOLEAN]

\* the job record of a submitted input, waiting in the queue
QueuedJob(input) == [segments |-> input.segments, preserveMetadata |-> input.preserveMetadata, selectedStreams |-> input.selectedStreams, state |-> "queued", step |-> 0, awaitedByCall |-> 0, awaitedByJob |-> 0]

\* processQueue: one segment and no stream selection is a simple cut
Multiple(job) == ~(job.segments = 1 /\ ~job.selectedStreams)

Repeat(x, n) == [i \in 1..n |-> x]

\* the FFmpeg operations a job awaits one after the other
\* (processSingleSegment, processMultipleSegments)
Operations(job) == IF Multiple(job) THEN Repeat("losslessCut", job.segments) \o <<"losslessMerge">> ELSE IF job.preserveMetadata THEN <<"losslessCut", "getMediaInfo", "updateMetadata">> ELSE <<"losslessCut">>

Emitted(name, job) == [name |-> name, job |-> job]

\* what the processQueue call that took job k settles with once the call it
\* awaits in its finally block has settled with error err (a job number, 0 for
\* none), and so on up to the processSegments call awaiting the outermost one:
\* an error thrown in finally replaces the error of the try block
RECURSIVE Outcome(_, _, _)
Outcome(js, k, err) == LET e == IF err # 0 THEN err ELSE IF js[k].state = "failed" THEN k ELSE 0 IN IF js[k].awaitedByJob # 0 THEN Outcome(js, js[k].awaitedByJob, e) ELSE [call |-> js[k].awaitedByCall, error |-> e]

Settled(ps, outcome) == [ps EXCEPT ![outcome.call] = [state |-> IF outcome.error # 0 THEN "rejected" ELSE "resolved", error |-> outcome.error]]

\* processQueue, called by processSegments call byCall or from the finally
\* block of the call that took job byJob (the other being 0), with the queue,
\* the jobs and the promises as they are at the call
processQueue(queue, js, ps, byCall, byJob) ==
    IF queue = <<>>
       THEN /\ isProcessing' = FALSE
            /\ processingQueue' = queue
            /\ jobs' = js
            /\ started' = started
            /\ promises' = Settled(ps, IF byJob # 0 THEN Outcome(js, byJob, 0) ELSE [call |-> byCall, error |-> 0])
       ELSE /\ isProcessing' = TRUE
            /\ processingQueue' = Tail(queue)
            /\ jobs' = [js EXCEPT ![Head(queue)].state = "processing", ![Head(queue)].awaitedByCall = byCall, ![Head(queue)].awaitedByJob = byJob]
            /\ started' = Append(started, Head(queue))
            /\ promises' = ps

\* processSegments starts the queue unless it is being processed
StartsQueueAlways(busy) == TRUE

StartsQueue(busy) == ~busy

\* a call of processSegments: the job is pushed; if nothing is being
\* processed the call awaits processQueue, otherwise it returns at once and
\* its promise is resolved
processSegments(input) ==
    /\ Len(jobs) < MaxCalls
    /\ LET k == Len(jobs) + 1
           js == Append(jobs, QueuedJob(input))
           queue == Append(processingQueue, k)
       IN IF StartsQueue(isProcessing)
             THEN processQueue(queue, js, Append(promises, [state |-> "pending", error |-> 0]), k, 0)
             ELSE /\ processingQueue' = queue
                  /\ jobs' = js
                  /\ promises' = Append(promises, [state |-> "resolved", error |-> 0])
                  /\ UNCHANGED <<isProcessing, started>>
    /\ UNCHANGED emitted
    /\ UNCHANGED <<timeline, service>>

\* the finally block of processQueue runs after a failure as after a success
ContinuesAfterSuccess(ok) == ok

ContinuesAfter(ok) == TRUE

\* the events of a job that ends: processMultipleSegments emits 'cleanup' for
\* every temporary file it had named, then processQueue emits the completion
\* or the error
EndEvents(k, job, ok) == (IF Multiple(job) THEN Repeat(Emitted("cleanup", k), IF ok THEN job.segments ELSE Min(job.step + 1, job.segments)) ELSE <<>>) \o <<Emitted(IF ok THEN "progress:complete" ELSE "error", k)>>

\* the FFmpeg operation that job k awaits settles, fulfilled (ok) or
\* rejected: the job goes on to its next operation, or it ends and the
\* finally block of processQueue takes the next job
operationSettles(k, ok) ==
    /\ k \in 1..Len(jobs)
    /\ jobs[k].state = "processing"
    /\ IF ok /\ jobs[k].step + 1 < Len(Operations(jobs[k]))
          THEN /\ jobs' = [jobs EXCEPT ![k].step = jobs[k].step + 1]
               /\ emitted' = emitted \o (IF Multiple(jobs[k]) THEN <<Emitted("progress:segment", k)>> ELSE <<>>)
               /\ UNCHANGED <<processingQueue, isProcessing, promises, started>>
          ELSE LET js == [jobs EXCEPT ![k].state = IF ok THEN "complete" ELSE "failed", ![k].step = IF ok THEN jobs[k].step + 1 ELSE jobs[k].step]
               IN /\ emitted' = emitted \o EndEvents(k, jobs[k], ok)
                  /\ IF ContinuesAfter(ok)
                        THEN processQueue(processingQueue, js, promises, 0, k)
                        ELSE /\ jobs' = js
                             /\ promises' = Settled(promises, Outcome(js, k, 0))
                             /\ UNCHANGED <<processingQueue, isProcessing, started>>
    /\ UNCHANGED <<timeline, service>>

\* ---------------------------------------------------------------- service lifecycle
\* a call of initialize: it returns at once when the service is initialized,
\* otherwise it calls initializeImpl and awaits it
initialize ==
    /\ initialized \/ pendingInitialize < MaxPending
    /\ IF initialized
          THEN UNCHANGED <<pendingInitialize, implRuns>>
          ELSE /\ pendingInitialize' = pendingInitialize + 1
               /\ implRuns' = implRuns + 1
    /\ serviceOp' = "initialize"
    /\ UNCHANGED <<initialized, pendingDispose, lastError, initializedEmits>>
    /\ UNCHANGED <<timeline, lossless>>

\* an awaited initializeImpl settles: fulfilled, the call sets initialized and
\* emits 'initialized'; rejected, it sets lastError, emits 'error' and throws
initializeImplSettles(ok) ==
    /\ pendingInitialize > 0
    /\ pendingInitialize' = pendingInitialize - 1
    /\ IF ok
          THEN /\ initialized' = TRUE
               /\ initializedEmits' = initializedEmits + 1
               /\ serviceOp' = "initialized"
               /\ UNCHANGED <<lastError, implRuns>>
          ELSE /\ lastError' = TRUE
               /\ implRuns' = Max(0, implRuns - 1)
               /\ serviceOp' = "error"
               /\ UNCHANGED <<initialized, initializedEmits>>
    /\ UNCHANGED pendingDispose
    /\ UNCHANGED <<timeline, lossless>>

\* a call of dispose: it returns at once when the service is not initialized,
\* otherwise it calls disposeImpl and awaits it
dispose ==
    /\ ~initialized \/ pendingDispose < MaxPending
    /\ pendingDispose' = IF initialized THEN pendingDispose + 1 ELSE pendingDispose
    /\ serviceOp' = "dispose"
    /\ UNCHANGED <<initialized, pendingInitialize, lastError, implRuns, initializedEmits>>
    /\ UNCHANGED <<timeline, lossless>>

\* an awaited disposeImpl settles: fulfilled, the call clears initialized and
\* emits 'disposed', after which only the runs of initializeImpl still
\* awaited count; rejected, it sets lastError, emits 'error' and throws
disposeImplSettles(ok) ==
    /\ pendingDispose > 0
    /\ pendingDispose' = pendingDispose - 1
    /\ IF ok
          THEN /\ initialized' = FALSE
               /\ implRuns' = pendingInitialize
               /\ initializedEmits' = 0
               /\ serviceOp' = "disposed"
               /\ UNCHANGED lastError
          ELSE /\ lastError' = TRUE
               /\ serviceOp' = "error"
               /\ UNCHANGED <<initialized, implRuns, initializedEmits>>
    /\ UNCHANGED pendingInitialize
    /\ UNCHANGED <<timeline, lossless>>

\* clearError: lastError = null
clearError ==
    /\ lastError' = FALSE
    /\ serviceOp' = "clearError"
    /\ UNCHANGED <<initialized, pendingInitialize, pendingDispose, implRuns, initializedEmits>>
    /\ UNCHANGED <<timeline, lossless>>

\* ---------------------------------------------------------------- specifications
\* selections handed to setSelection
Selections == {<<>>} \cup {<<s>> : s \in SegIds}

\* the structural operations with arbitrary arguments
Next ==
    \/ \E type \in {"video"} : createTrack(type)
    \/ \E trackId \in TrackIdArgs : removeTrack(trackId)
    \/ \E trackId \in TrackIdArgs, segment \in SegmentInputs, position \in Positions : addSegment(trackId, segment, position)
    \/ \E trackId \in TrackIdArgs, segmentId \in SegIds : removeSegment(trackId, segmentId)
    \/ \E segmentId \in SegIds, newPosition \in Positions : moveSegment(segmentId, newPosition)

Spec == Init /\ [][Next]_vars

\* the structural operations and the playhead, called with valid segments only
\* (position >= 0, duration > 0)
NextValid ==
    \/ \E type \in {"video"} : createTrack(type)
    \/ \E trackId \in TrackIdArgs : removeTrack(trackId)
    \/ \E trackId \in TrackIdArgs, segment \in ValidSegmentInputs, position \in ValidPositions : addSegment(trackId, segment, position)
    \/ \E trackId \in TrackIdArgs, segmentId \in SegIds : removeSegment(trackId, segmentId)
    \/ \E segmentId \in SegIds, newPosition \in ValidPositions : moveSegment(segmentId, newPosition)
    \/ \E position \in Times : setPlayhead(position)

SpecValid == Init /\ [][NextValid]_vars

\* the structural operations and the query
NextQuery ==
    \/ \E type \in {"video"} : createTrack(type)
    \/ \E trackId \in TrackIdArgs : removeTrack(trackId)
    \/ \E trackId \in TrackIdArgs, segment \in SegmentInputs, position \in Positions : addSegment(trackId, segment, position)
    \/ \E trackId \in TrackIdArgs, segmentId \in SegIds : removeSegment(trackId, segmentId)
    \/ \E segmentId \in SegIds, newPosition \in Positions : moveSegment(segmentId, newPosition)
    \/ \E time \in Times : getSegmentsAtTime(time)

SpecQuery == Init /\ [][NextQuery]_vars

\* a timeline loaded with locked segments, then dragged
NextLock ==
    \/ \E type \in TrackTypes : createTrack(type)
    \/ \E trackId \in TrackIdArgs, segment \in LockedSegmentInputs, position \in ValidPositions : addSegment(trackId, segment, position)
    \/ \E segmentId \in SegIds, newPosition \in ValidPositions : moveSegment(segmentId, newPosition)

SpecLock == Init /\ [][NextLock]_vars

\* valid segments, dragged to arbitrary positions
NextMove ==
    \/ \E type \in {"video"} : createTrack(type)
    \/ \E trackId \in TrackIdArgs, segment \in ValidSegmentInputs, position \in ValidPositions : addSegment(trackId, segment, position)
    \/ \E trackId \in TrackIdArgs, segmentId \in SegIds : removeSegment(trackId, segmentId)
    \/ \E segmentId \in SegIds, newPosition \in Positions : moveSegment(segmentId, newPosition)

SpecMove == Init /\ [][NextMove]_vars

\* a timeline whose segments are selected and removed
NextSel ==
    \/ \E type \in {"video"} : createTrack(type)
    \/ \E trackId \in TrackIdArgs : removeTrack(trackId)
    \/ \E trackId \in TrackIdArgs, segment \in SelectedSegmentInputs, position \in ValidPositions : addSegment(trackId, segment, position)
    \/ \E trackId \in TrackIdArgs, segmentId \in SegIds : removeSegment(trackId, segmentId)
    \/ \E segmentIds \in Selections : setSelection(segmentIds)

SpecSel == Init /\ [][NextSel]_vars

\* a timeline whose tracks, segments and effects are added and removed, by
\* known and by unknown ids
NextRemove ==
    \/ \E type \in {"video"} : createTrack(type)
    \/ \E trackId \in TrackIdArgs : removeTrack(trackId)
    \/ \E trackId \in TrackIdArgs, segment \in ValidSegmentInputs : addSegment(trackId, segment, 0)
    \/ \E trackId \in TrackIdArgs, segmentId \in SegIds : removeSegment(trackId, segmentId)
    \/ \E segmentId \in SegIds, effect \in EffectInputs : addEffect(segmentId, effect)
    \/ \E segmentId \in SegIds, effectId \in EffectIdArgs : removeEffect(segmentId, effectId)

SpecRemove == Init /\ [][NextRemove]_vars

\* the zoom is set while tracks are created
NextZoom ==
    \/ \E type \in TrackTypes : createTrack(type)
    \/ \E z \in ZoomArgs : setZoom(z)

SpecZoom == Init /\ [][NextZoom]_vars

\* a timeline of valid segments on which the in and out points are set
NextPoints ==
    \/ \E type \in {"video"} : createTrack(type)
    \/ \E trackId \in TrackIdArgs, segment \in ValidSegmentInputs, position \in ValidPositions : addSegment(trackId, segment, position)
    \/ \E inArg \in PointArgs, outArg \in PointArgs : setInOutPoints(inArg, outArg)

SpecPoints == Init /\ [][NextPoints]_vars

\* one segment moved and its effects' parameters updated and keyframed, by
\* known and by unknown ids
NextParam ==
    \/ \E type \in {"video"} : createTrack(type)
    \/ \E trackId \in {1}, segment \in {s \in ValidSegmentInputs : s.id = "a"} : addSegment(trackId, segment, 0)
    \/ \E segmentId \in SegIds, newPosition \in ValidPositions : moveSegment(segmentId, newPosition)
    \/ \E segmentId \in {"a"}, effect \in EffectInputs : addEffect(segmentId, effect)
    \/ \E effectId \in EffectIdArgs, parameterId \in ParamIdArgs, value \in ValueArgs : updateEffectParameter(effectId, parameterId, value)
    \/ \E effectId \in EffectIdArgs, parameterId \in ParamIdArgs, time \in ValidPositions, value \in {0} : addEffectKeyframe(effectId, parameterId, time, value)

SpecParam == Init /\ [][NextParam]_vars

\* the evaluation of arbitrary keyframe lists at arbitrary times
NextEditor == \E time \in Times : interpolate(time)

SpecEditor == InitEditor /\ [][NextEditor]_vars

\* one parameter whose keyframes are added, removed and evaluated
NextKeyframes ==
    \/ \E type \in {"video"} : createTrack(type)
    \/ \E segment \in {s \in ValidSegmentInputs : s.id = "a"} : addSegment(1, segment, 0)
    \/ \E effect \in {[parameters |-> <<BoundedParameter>>]} : addEffect("a", effect)
    \/ \E time \in ValidPositions, value \in 0..MaxVal : addEffectKeyframe(1, "p", time, value)
    \/ \E keyframeId \in KeyframeIdArgs : removeEffectKeyframe(1, "p", keyframeId)
    \/ \E time \in Times : evaluate(1, "p", time)

SpecKeyframes == Init /\ [][NextKeyframes]_vars

\* a timeline whose points a dragged time is snapped to, at two zooms
NextSnap ==
    \/ \E type \in {"video"} : createTrack(type)
    \/ \E segment \in {s \in ValidSegmentInputs : s.id = "a"}, position \in ValidPositions : addSegment(1, segment, position)
    \/ \E inArg \in {None, Some(0)}, outArg \in {None, Some(MaxPos + MaxDur + 1)} : setInOutPoints(inArg, outArg)
    \/ \E position \in 1..(MaxPos + MaxDur) : setPlayhead(position)
    \/ \E z \in {10, 20} : setZoom(z)
    \/ \E enabled \in BOOLEAN : setSnapEnabled(enabled)
    \/ \E time \in SnapTimes : findNearestSnapPoint(time)

SpecSnap == Init /\ [][NextSnap]_vars

\* a timeline with effects that is saved and loaded
NextProject ==
    \/ \E type \in {"video", "audio"} : createTrack(type)
    \/ \E trackId \in TrackIdArgs, segment \in ValidSegmentInputs, position \in ValidPositions : addSegment(trackId, segment, position)
    \/ \E segmentId \in SegIds : addEffect(segmentId, [parameters |-> <<BoundedParameter>>])
    \/ loadProject

SpecProject == Init /\ [][NextProject]_vars

\* the segments present in some track
HasSegment(ts, segmentId) == \E i \in 1..Len(ts) : findSegmentIn(ts[i].segments, segmentId) # 0

\* segments are selected while they exist, and removed
NextSelExisting ==
    \/ \E type \in {"video"} : createTrack(type)
    \/ \E trackId \in TrackIdArgs : removeTrack(trackId)
    \/ \E trackId \in TrackIdArgs, segment \in ValidSegmentInputs, position \in ValidPositions : addSegment(trackId, segment, position)
    \/ \E trackId \in TrackIdArgs, segmentId \in SegIds : removeSegment(trackId, segmentId)
    \/ \E segmentIds \in Selections : (\A n \in 1..Len(segmentIds) : HasSegment(tracks, segmentIds[n])) /\ setSelection(segmentIds)

SpecSelExisting == Init /\ [][NextSelExisting]_vars

\* "a" is inserted once and first, on the first track, and "b" after it, any
\* number of times: the ids are unique and tell the order of insertion
NextOrder ==
    \/ \E type \in {"video"} : createTrack(type)
    \/ \E segment \in {s \in ValidSegmentInputs : s.id = "a"}, position \in ValidPositions : ~HasSegment(tracks, "a") /\ addSegment(1, segment, position)
    \/ \E segment \in {s \in ValidSegmentInputs : s.id = "b"}, position \in ValidPositions : HasSegment(tracks, "a") /\ ~HasSegment(tracks, "b") /\ \E trackId \in 1..MaxTracks : addSegment(trackId, segment, position)
    \/ \E trackId \in 1..MaxTracks : removeSegment(trackId, "b")
    \/ \E segmentId \in SegIds, newPosition \in ValidPositions : moveSegment(segmentId, newPosition)

SpecOrder == Init /\ [][NextOrder]_vars

\* a timeline of which a snapshot is taken and kept while both are changed
NextSnapshot ==
    \/ \E type \in {"video"} : createTrack(type)
    \/ \E trackId \in 1..MaxTracks : removeTrack(trackId)
    \/ \E segment \in {s \in ValidSegmentInputs : s.id = "a"}, position \in ValidPositions : ~HasSegment(tracks, "a") /\ \E trackId \in 1..MaxTracks : addSegment(trackId, segment, position)
    \/ \E newPosition \in ValidPositions : moveSegment("a", newPosition)
    \/ \E segmentIds \in {<<>>, <<"a">>} : setSelection(segmentIds)
    \/ getState
    \/ \E position \in ValidPositions : holderSetsPlayhead(position)
    \/ holderPopsTrack
    \/ \E n \in 1..MaxTracks, position \in ValidPositions : holderMovesSegment(n, 1, position)

SpecSnapshot == Init /\ [][NextSnapshot]_vars

\* jobs are submitted while FFmpeg operations are awaited
NextQueue ==
    \/ \E input \in JobInputs : processSegments(input)
    \/ \E k \in 1..MaxCalls, ok \in BOOLEAN : operationSettles(k, ok)

SpecQueue == Init /\ [][NextQueue]_vars

\* every operation handed to FFmpeg settles: ipcRenderer.invoke fulfils or
\* rejects its promise when the main process has answered
SpecQueueFair == SpecQueue /\ \A k \in 1..MaxCalls : WF_vars(\E ok \in BOOLEAN : operationSettles(k, ok))

\* a service initialized and disposed by callers that do not wait for each other
NextService ==
    \/ initialize
    \/ \E ok \in BOOLEAN : initializeImplSettles(ok)
    \/ dispose
    \/ \E ok \in BOOLEAN : disposeImplSettles(ok)
    \/ clearError

SpecService == Init /\ [][NextService]_vars

\* ---------------------------------------------------------------- claims
\* the places of the segments: <<track index, segment index>>
Places(ts) == UNION {{<<i, j>> : j \in 1..Len(ts[i].segments)} : i \in 1..Len(ts)}

SegmentAt(ts, pl) == ts[pl[1]].segments[pl[2]]

EndOf(segment) == segment.position + segment.duration

\* d is the maximum segment end of ts, or 0 when ts holds no segment
IsMaxEnd(d, ts) == IF Places(ts) = {} THEN d = 0 ELSE (\E pl \in Places(ts) : d = EndOf(SegmentAt(ts, pl))) /\ (\A pl \in Places(ts) : EndOf(SegmentAt(ts, pl)) <= d)

\* every track of ts has its segments in non-decreasing order of position
AllSorted(ts) == \A i \in 1..Len(ts) : \A j, k \in 1..Len(ts[i].segments) : j < k => ts[i].segments[j].position <= ts[i].segments[k].position

\* C1: after every call of createTrack, removeTrack, addSegment, removeSegment
\* and moveSegment, duration is the maximum of position + duration over all
\* segments of all tracks, and 0 when there is no segment.
C1_DurationIsMaxEnd == IsMaxEnd(duration, tracks)

\* C2: after every call 0 <= playhead <= duration, also after the calls that
\* change duration, and setPlayhead(p) stores min(max(p, 0), duration).
C2_PlayheadInRange == /\ 0 <= playhead
                      /\ playhead <= duration
                      /\ lastOp.op = "setPlayhead" => playhead = Min(Max(lastOp.position, 0), duration)

\* C3: at every event delivery the state a subscriber reads is the committed
\* one: duration is the maximum segment end (0 without segments) and every
\* track is sorted by position.
C3_EventsSeeCommittedState == \A n \in 1..Len(events) : IsMaxEnd(events[n].seenDuration, events[n].seenTracks) /\ AllSorted(events[n].seenTracks)

\* C4: after every addSegment and removeSegment, whatever the positions, each
\* track's segments are in non-decreasing order of position.
C4_SegmentsSorted == AllSorted(tracks)

\* C4 witness: addSegment has inserted a segment in front of one that was
\* already in the track.
C4_Witness == /\ lastOp.op = "addSegment"
              /\ error = ""
              /\ \E i \in 1..Len(tracks) : /\ tracks[i].id = lastOp.trackId
                                            /\ Len(tracks[i].segments) >= 2
                                            /\ tracks[i].segments[1].position = lastOp.position
                                            /\ tracks[i].segments[2].position > lastOp.position

\* the ids of a selection
IdsOf(segmentIds) == {segmentIds[n] : n \in 1..Len(segmentIds)}

\* C5: after setSelection(ids), selection is ids and a segment's selected flag
\* is true when its id is in ids and false (or still unset) otherwise.
C5_SelectionMarksSegments == lastOp.op = "setSelection" =>
    /\ selection = lastOp.segmentIds
    /\ \A pl \in Places(tracks) : Truthy(SegmentAt(tracks, pl).selected) = (SegmentAt(tracks, pl).id \in IdsOf(lastOp.segmentIds))

\* C6: moveSegment(id, p) on an existing segment stores max(0, p) as its
\* position: the moved segment, as handed to the subscribers of segmentMoved
\* and as held by its track, has that position.
C6_MoveClampsAtZero == (lastOp.op = "moveSegment" /\ events # <<>>) =>
    /\ events[1].name = "segmentMoved"
    /\ events[1].payload.position = Max(0, lastOp.position)
    /\ \E pl \in Places(tracks) : SegmentAt(tracks, pl).id = lastOp.segmentId /\ SegmentAt(tracks, pl).position = Max(0, lastOp.position)

\* every segment with that id is locked, and there is one
AllLocked(ts, segmentId) == /\ \E pl \in Places(ts) : SegmentAt(ts, pl).id = segmentId
                            /\ \A pl \in Places(ts) : SegmentAt(ts, pl).id = segmentId => Truthy(SegmentAt(ts, pl).locked)

\* C7: moveSegment on a locked segment is rejected with SegmentLocked: the
\* tracks (positions and order) and duration stay as they were and no
\* segmentMoved event is emitted.
C7_LockedSegmentNotMoved == [][(lastOp'.op = "moveSegment" /\ AllLocked(tracks, lastOp'.segmentId)) =>
    /\ error' = "SEGMENT_LOCKED"
    /\ tracks' = tracks
    /\ duration' = duration
    /\ \A n \in 1..Len(events') : events'[n].name # "segmentMoved"]_vars

\* C8: every segment held by the timeline has position >= 0 and duration > 0.
C8_SegmentsValid == \A pl \in Places(tracks) : SegmentAt(tracks, pl).position >= 0 /\ SegmentAt(tracks, pl).duration > 0

\* C9: getSegmentsAtTime(t) returns exactly the segments of the current tracks
\* with position <= t < position + duration, each once, and so no segment of
\* a removed track.
C9_SegmentsAtTimeHalfOpen == lastOp.op = "getSegmentsAtTime" =>
    LET t == lastOp.position
        active == {pl \in Places(tracks) : SegmentAt(tracks, pl).position <= t /\ t < EndOf(SegmentAt(tracks, pl))}
    IN /\ Len(result) = Cardinality(active)
       /\ \A pl \in active : \E n \in 1..Len(result) : result[n] = SegmentAt(tracks, pl)
       /\ \A n \in 1..Len(result) : /\ \E pl \in active : result[n] = SegmentAt(tracks, pl)
                                     /\ \E i \in 1..Len(tracks) : tracks[i].id = result[n].trackId

\* C9 witness: after a track was removed, a query at the end time of a
\* segment that returns another segment.
C9_Witness == /\ lastOp.op = "getSegmentsAtTime"
              /\ result # <<>>
              /\ Len(tracks) = 1
              /\ nextTrackId = 3
              /\ \E pl \in Places(tracks) : EndOf(SegmentAt(tracks, pl)) = lastOp.position /\ SegmentAt(tracks, pl).duration > 0

\* C10: addSegment with a trackId that matches no track fails with
\* TrackNotFound, leaves tracks, segments and duration as they were and emits
\* no event.
C10_AddSegmentUnknownTrack == [][(lastOp'.op = "addSegment" /\ \A i \in 1..Len(tracks) : tracks[i].id # lastOp'.trackId) =>
    /\ error' = "TRACK_NOT_FOUND"
    /\ tracks' = tracks
    /\ duration' = duration
    /\ events' = <<>>]_vars

\* C10 witness: addSegment was called with an unknown track id on a timeline
\* that holds a track with a segment.
C10_Witness == /\ lastOp.op = "addSegment"
               /\ error = "TRACK_NOT_FOUND"
               /\ Places(tracks) # {}
               /\ \A i \in 1..Len(tracks) : tracks[i].id # lastOp.trackId
\* the id a remove operation is given names nothing it could remove
UnknownToRemove(ts, op) ==
    \/ /\ op.op = "removeTrack"
       /\ \A i \in 1..Len(ts) : ts[i].id # op.trackId
    \/ /\ op.op = "removeSegment"
       /\ \A i \in 1..Len(ts) : ts[i].id = op.trackId => \A k \in 1..Len(ts[i].segments) : ts[i].segments[k].id # op.segmentId
    \/ /\ op.op = "removeEffect"
       /\ \/ \A pl \in Places(ts) : SegmentAt(ts, pl).id # op.segmentId
          \/ LET i == findSegmentTrack(ts, op.segmentId)
                 segment == ts[i].segments[findSegmentIn(ts[i].segments, op.segmentId)]
             IN \A e \in 1..Len(segment.effects) : segment.effects[e].id # op.effectId

IsRemove(op) == op.op \in {"removeTrack", "removeSegment", "removeEffect"}

\* C11: removeTrack with an unknown track id, removeSegment with an unknown
\* track or segment id and removeEffect with an unknown segment or effect id
\* leave the timeline state unchanged, emit no event and throw nothing; and
\* after any remove the id it was given is unknown, so that the same remove
\* applied again changes nothing
C11_RemoveUnknownIsNoOp == [][IsRemove(lastOp') => /\ UnknownToRemove(tracks, lastOp') => (state' = state /\ events' = <<>> /\ error' = "")
                                                 /\ UnknownToRemove(tracks', lastOp')]_vars

\* a second removeEffect of the same effect has just been a no-op on a
\* timeline that still holds a segment
C11_Witness == /\ lastOp.op = "removeEffect"
               /\ lastOp.effectId < nextEffectId
               /\ events = <<>>
               /\ \E pl \in Places(tracks) : SegmentAt(tracks, pl).id = lastOp.segmentId /\ SegmentAt(tracks, pl).effects = <<>>

\* the durationChanged events among those of the last call
DurationChangedIn(evs) == SelectSeq(evs, LAMBDA e : e.name = "durationChanged")

\* C12: a call emits durationChanged exactly when it changes the value of
\* duration, then once and with the new value as payload; a call that leaves
\* duration the same emits none
C12_DurationChangedOnlyOnChange == [][IF duration' # duration
                                      THEN Len(DurationChangedIn(events')) = 1 /\ DurationChangedIn(events')[1].payload = duration'
                                      ELSE DurationChangedIn(events') = <<>>]_vars

\* a segment has been removed under a longer one: segmentRemoved alone
C12_Witness == /\ lastOp.op = "removeSegment"
               /\ Len(events) = 1
               /\ events[1].name = "segmentRemoved"
               /\ duration > 0

\* C13: the zoom always lies in [0.1, 10] (1..100 in tenths); setZoom stores
\* an argument below 0.1 as 0.1, one above 10 as 10, and one in the range as
\* it is
C13_ZoomInRange == /\ 1 <= zoom
                   /\ zoom <= 100
                   /\ lastOp.op = "setZoom" => zoom = (IF lastOp.position < 1 THEN 1 ELSE IF lastOp.position > 100 THEN 100 ELSE lastOp.position)

\* setZoom has been called with an argument below the range
C13_Witness == /\ lastOp.op = "setZoom"
               /\ lastOp.position < 1
               /\ zoom = 1

\* p is an optional point that is absent or lies in [0, d]
PointInRange(p, d) == p = None \/ (0 <= p[1] /\ p[1] <= d)

\* C14: after setInOutPoints every point that was given is stored clamped to
\* [0, duration], so that every defined inPoint and outPoint lies in
\* [0, duration]
C14_InOutPointsClamped == lastOp.op = "setInOutPoints" =>
                              /\ PointInRange(inPoint, duration)
                              /\ PointInRange(outPoint, duration)
                              /\ lastOp.inPoint # None => inPoint = Some(Max(0, Min(lastOp.inPoint[1], duration)))
                              /\ lastOp.outPoint # None => outPoint = Some(Max(0, Min(lastOp.outPoint[1], duration)))

\* the effects with that id, wherever they are
EffectsNamed(ts, effectId) == UNION {{e \in {SegmentAt(ts, pl).effects[m] : m \in 1..Len(SegmentAt(ts, pl).effects)} : e.id = effectId} : pl \in Places(ts)}

\* the parameters named by an effect id and a parameter id
ParametersNamed(ts, effectId, parameterId) == {p \in UNION {{e.parameters[n] : n \in 1..Len(e.parameters)} : e \in EffectsNamed(ts, effectId)} : p.id = parameterId}

\* C15: after updateEffectParameter on a numeric parameter that declares both
\* min and max, the stored value is the argument clamped to [min, max], so
\* min <= parameter.value <= max
C15_ParameterValueClamped == lastOp.op = "updateEffectParameter" =>
                                 \A p \in ParametersNamed(tracks, lastOp.effectId, lastOp.parameterId) :
                                     (p.min # None /\ p.max # None) => /\ p.min[1] <= p.value
                                                                       /\ p.value <= p.max[1]
                                                                       /\ p.value = Max(p.min[1], Min(lastOp.value, p.max[1]))

\* C16: moveSegment with a segment id found in no track, and
\* updateEffectParameter or addEffectKeyframe with an effect id or a parameter
\* id that names nothing, end with an error handed to the caller
C16_NotFoundSurfaced == /\ (lastOp.op = "moveSegment" /\ \A pl \in Places(tracks) : SegmentAt(tracks, pl).id # lastOp.segmentId) => error # ""
                        /\ (lastOp.op \in {"updateEffectParameter", "addEffectKeyframe"} /\ ParametersNamed(tracks, lastOp.effectId, lastOp.parameterId) = {}) => error # ""

\* the evaluation returned the number v
Returned(res, v) == res # None /\ res[1].num = v * res[1].den

\* C17 as stated: evaluating at exactly the time of a keyframe returns the
\* value of that keyframe, for every keyframe and every easing
C17_KeyframeValueAtItsTime == lastOp.op = "interpolateValue" =>
                                  \A i \in 1..Len(editorKeyframes) : editorKeyframes[i].time = lastOp.position => Returned(result, editorKeyframes[i].value)

\* no other keyframe of the list has the time of keyframe i
UniqueTime(keyframes, i) == \A j \in 1..Len(keyframes) : keyframes[j].time = keyframes[i].time => j = i

\* C17, amended: evaluating at exactly the time of a keyframe whose time no
\* other keyframe shares returns the value of that keyframe, for every easing
C17_UniqueKeyframeValueAtItsTime == lastOp.op = "interpolateValue" =>
                                        \A i \in 1..Len(editorKeyframes) : (editorKeyframes[i].time = lastOp.position /\ UniqueTime(editorKeyframes, i)) => Returned(result, editorKeyframes[i].value)

\* the evaluation at the time of an easeOut keyframe that is followed by a
\* later keyframe with another value
C17_Witness == /\ lastOp.op = "interpolateValue"
               /\ \E i, j \in 1..Len(editorKeyframes) : /\ editorKeyframes[i].time = lastOp.position
                                                       /\ editorKeyframes[i].easing = "easeOut"
                                                       /\ editorKeyframes[j].time > lastOp.position
                                                       /\ editorKeyframes[j].value # editorKeyframes[i].value
                                                       /\ Returned(result, editorKeyframes[i].value)

\* the keyframes of an optional list that have the time t
KeyframesAt(keyframes, t) == {k \in {OrEmpty(keyframes)[n] : n \in 1..Len(OrEmpty(keyframes))} : k.time = t}

\* C18: when keyframes of the evaluated parameter share the time of the
\* evaluation and differ in value, the evaluation returns the value of the
\* one inserted first (the one with the smallest generated id)
C18_FirstInsertedWins == lastOp.op = "evaluate" =>
                             \A p \in ParametersNamed(tracks, lastOp.effectId, lastOp.parameterId) :
                                 \A k1, k2 \in KeyframesAt(p.keyframes, lastOp.time) :
                                     (k1.value # k2.value /\ \A k \in KeyframesAt(p.keyframes, lastOp.time) : k1.id <= k.id) => Returned(result, k1.value)

\* C19: the evaluation of a parameter that has no keyframes, never had any
\* or lost them all, returns its static value at every time
C19_NoKeyframesStaticValue == lastOp.op = "evaluate" =>
                                  \A p \in ParametersNamed(tracks, lastOp.effectId, lastOp.parameterId) :
                                      OrEmpty(p.keyframes) = <<>> => Returned(result, p.value)

\* the snap points within the tolerance of t, by their place in the
\* enumeration
WithinTolerance(points, t, z) == {i \in 1..Len(points) : ScaledDistance(Abs(points[i] - t), z) < ScaledTolerance}

Range(q) == {q[n] : n \in 1..Len(q)}

\* C21: the snap points the resolver uses hold the position and the end of
\* every segment of every track, the playhead, and the inPoint and the
\* outPoint whenever they are set, whatever their value
C21_SnapPointSet == lastOp.op = "findNearestSnapPoint" =>
                        LET points == Range(SnapPoints(tracks, playhead, inPoint, outPoint))
                        IN /\ \A pl \in Places(tracks) : SegmentAt(tracks, pl).position \in points /\ EndOf(SegmentAt(tracks, pl)) \in points
                           /\ playhead \in points
                           /\ inPoint # None => inPoint[1] \in points
                           /\ outPoint # None => outPoint[1] \in points

\* C22: after a timeline has been saved and loaded again it has the tracks
\* of the file in the same order and of the same kinds, each with the same
\* segments at the same positions and of the same durations, with their
\* effects and keyframes, and the same duration
C22_LoadRestoresTimeline == lastOp.op = "loadProject" =>
                                LET saved == result[1]
                                IN /\ duration = saved.duration
                                   /\ Len(tracks) = Len(saved.tracks)
                                   /\ \A i \in 1..Len(tracks) : /\ tracks[i].type = saved.tracks[i].type
                                                                /\ Len(tracks[i].segments) = Len(saved.tracks[i].segments)
                                                                /\ \A k \in 1..Len(tracks[i].segments) : /\ tracks[i].segments[k].id = saved.tracks[i].segments[k].id
                                                                                                         /\ tracks[i].segments[k].position = saved.tracks[i].segments[k].position
                                                                                                         /\ tracks[i].segments[k].duration = saved.tracks[i].segments[k].duration
                                                                                                         /\ tracks[i].segments[k].effects = saved.tracks[i].segments[k].effects

\* C23 as stated: every track's list is non-decreasing in position and
\* segments with equal position appear in the order of their insertion
\* ("a" is inserted before "b" in SpecOrder)
C23_TiesInInsertionOrder == /\ AllSorted(tracks)
                            /\ \A i \in 1..Len(tracks) : \A m, n \in 1..Len(tracks[i].segments) :
                                   (m < n /\ tracks[i].segments[m].position = tracks[i].segments[n].position) => ~(tracks[i].segments[m].id = "b" /\ tracks[i].segments[n].id = "a")

\* C23, amended: every track's list is non-decreasing in position, and a
\* call keeps segments with equal position in the relative order they had in
\* the list before the call, a newly added segment coming after them
C23_TiesKeepListOrder == [][/\ AllSorted(tracks')
                            /\ Len(tracks') = Len(tracks) =>
                                   \A i \in 1..Len(tracks') : \A m, n \in 1..Len(tracks'[i].segments) :
                                       (m < n /\ tracks'[i].segments[m].position = tracks'[i].segments[n].position) =>
                                           LET before == findSegmentIn(tracks[i].segments, tracks'[i].segments[m].id)
                                               after == findSegmentIn(tracks[i].segments, tracks'[i].segments[n].id)
                                           IN before # 0 /\ (after = 0 \/ before < after)]_vars

\* a move has brought the segment inserted first to the position of the
\* other one, behind it
C23_Witness == /\ lastOp.op = "moveSegment"
               /\ \E i \in 1..Len(tracks) : /\ Len(tracks[i].segments) = 2
                                            /\ tracks[i].segments[1].id = "b"
                                            /\ tracks[i].segments[2].id = "a"
                                            /\ tracks[i].segments[1].position = tracks[i].segments[2].position

\* C24: the selection holds only ids of segments that are in some track
C24_SelectionExists == \A segmentId \in IdsOf(selection) : \E pl \in Places(tracks) : SegmentAt(tracks, pl).id = segmentId

\* C25: no two segments of the timeline have the same id
C25_SegmentIdsUnique == \A pl, ql \in Places(tracks) : SegmentAt(tracks, pl).id = SegmentAt(tracks, ql).id => pl = ql

\* C26: the object returned by getState is a snapshot. A step in which the
\* holder changes the object, its track list or one of its segments leaves the
\* state of the engine as it was, and a step of addSegment, moveSegment or
\* setSelection leaves what the holder reads from the object as it was.
C26_SnapshotIsolated == [][/\ (lastOp'.op \in {"holderSetsPlayhead", "holderPopsTrack", "holderMovesSegment"} => state' = state) /\ (snapshot # None /\ lastOp'.op \in {"addSegment", "moveSegment", "setSelection"} => snapshot' # None /\ SnapshotView(snapshot'[1], tracks') = SnapshotView(snapshot[1], tracks))]_vars

\* the jobs that have been processed to their end
Processed(k) == k \in 1..Len(jobs) /\ jobs[k].state \in {"complete", "failed"}

\* C27: the promise of a processSegments call settles only after the job the
\* call submitted has been processed, and it is rejected exactly when that
\* job failed.
C27_PromiseFollowsOwnJob == \A k \in 1..Len(promises) : promises[k].state # "pending" => Processed(k) /\ (promises[k].state = "rejected" <=> jobs[k].state = "failed")

\* C28: at most one job is being processed at any moment, and the jobs start
\* in the order of their submission.
C28_OneAtATimeInOrder == Cardinality({k \in 1..Len(jobs) : jobs[k].state = "processing"}) <= 1 /\ \A n \in 1..Len(started) : started[n] = n

C28_Witness == started = <<1, 2, 3>> /\ promises[2].state = "resolved" /\ promises[3].state = "resolved" /\ jobs[3].awaitedByJob = 2

\* C29: every submitted job is eventually processed to its end, whatever
\* became of the jobs before it; whenever no job is waiting or being
\* processed isProcessing is false, and a job submitted then starts at once.
C29_EveryJobProcessed == /\ \A k \in 1..MaxCalls : (k \in 1..Len(jobs) /\ ~Processed(k)) ~> Processed(k)
                         /\ [](processingQueue = <<>> /\ (\A k \in 1..Len(jobs) : Processed(k)) => ~isProcessing)
                         /\ [][~isProcessing /\ Len(jobs') > Len(jobs) => jobs'[Len(jobs')].state = "processing"]_vars

C29_Witness == Len(jobs) = 3 /\ jobs[1].state = "failed" /\ jobs[2].state = "complete" /\ jobs[2].awaitedByJob = 1 /\ jobs[3].state = "processing" /\ jobs[3].awaitedByCall = 3

\* C30: between two disposals initializeImpl runs at most once (a run that
\* failed aside) and 'initialized' is emitted at most once, also when initialize
\* is called while an earlier call awaits initializeImpl; a call of initialize
\* on an initialized service changes nothing.
C30_InitializeOnce == [][/\ implRuns' <= 1 /\ initializedEmits' <= 1 /\ (initialized /\ serviceOp' = "initialize" => UNCHANGED <<initialized, pendingInitialize, pendingDispose, lastError, implRuns, initializedEmits>>)]_vars

====
